---- MODULE Spec2Model ----
(***************************************************************************)
(* A model of ggplot/guides/guides.py: the guides collection (a dict of    *)
(* guide specs keyed by aesthetic), its merge into a plot, and the build   *)
(* pipeline  set defaults -> train -> merge -> create_geoms -> draw ->     *)
(* assemble.                                                               *)
(*                                                                         *)
(* Python values are modelled as follows.  None is the token NoneV, the    *)
(* waiver sentinel is the token Waive.  A dict is a function whose DOMAIN  *)
(* is its key set.  A guide spec is a record with a `kind`: "none", "false"*)
(* (the values None and False), "str" (a guide name), "guide" (a guide     *)
(* object) or "other" (any other object).  A collaborator of the guides    *)
(* class (a guide object's train, merge, create_geoms, draw; the packers)  *)
(* is modelled by the record it returns and by an entry in `calls`, the    *)
(* log of collaborator invocations.                                        *)
(***************************************************************************)
EXTENDS Integers, Sequences, FiniteSets, TLC

VARIABLES
    pc,          \* position in the operation under way
    err,         \* the GgplotError raised, or NoErr
    result,      \* what build / assemble returned
    theme,       \* plot.theme.params
    entry,       \* the theme params, collection and scales on entry to build
    scales,      \* plot.scales
    labels,      \* plot.labels
    coll,        \* the guides collection (self), aesthetic -> spec
    gdefs,       \* the list of guide definitions in the pipeline
    old,         \* the guide definitions as passed to the step that ran last
    gboxes,      \* the list of drawn guide boxes
    calls,       \* log of collaborator invocations
    kwargs,      \* keyword arguments given to guides(...)
    heap,        \* guide objects by reference (merge-into-plot model)
    shared,      \* the collection added to plots: aesthetic -> reference
    plotGuides,  \* plot -> (aesthetic -> reference): each plot's .guides
    last         \* the merge-into-plot / build operation that ran last

vars == <<pc, err, result, theme, entry, scales, labels, coll, gdefs, old,
          gboxes, calls, kwargs, heap, shared, plotGuides, last>>

----------------------------------------------------------------------------
(* Bounds of the model *)

MaxScales == 2
MaxGdefs == 3
MaxMerge == 4
MaxRadds == 2

----------------------------------------------------------------------------
(* Python values *)

NoneV == "<None>"
Waive == "<waive>"
NoErr == "<no error>"
NoBox == [packer |-> NoneV, children |-> <<>>, align |-> NoneV,
          pad |-> 0, sep |-> 0]

EmptyDict == [k \in {} |-> NoneV]

\* dict.get(key, default)
DictGet(d, key, default) == IF key \in DOMAIN d THEN d[key] ELSE default

\* d.update(e)
DictUpdate(d, e) ==
    [k \in DOMAIN d \cup DOMAIN e |-> IF k \in DOMAIN e THEN e[k] ELSE d[k]]

----------------------------------------------------------------------------
(* guides.__init__ *)

aes_names == {"alpha", "color", "fill", "linetype", "shape", "size"}

\* kwargs after `if 'colour' in kwargs: kwargs['color'] = kwargs.pop('colour')`
PopColour(kw) ==
    IF "colour" \in DOMAIN kw
    THEN [k \in (DOMAIN kw \ {"colour"}) \cup {"color"} |->
             IF k = "color" THEN kw["colour"] ELSE kw[k]]
    ELSE kw

\* `if 'colour' in kwargs` forgotten: 'colour' falls out with the unknown keys
GuidesInitNoAlias(kw) ==
    [ae \in DOMAIN kw \cap aes_names |-> kw[ae]]

GuidesInit(kw) ==
    LET kw2 == PopColour(kw)
    IN  [ae \in DOMAIN kw2 \cap aes_names |-> kw2[ae]]

----------------------------------------------------------------------------
(* guides.build: the legend theme options *)

ThemeKeys == {"legend_box", "legend_key_width", "legend_key_height",
              "legend_key_size", "legend_position", "legend_direction",
              "legend_box_just"}

\* set_if_none that overwrites a value already set
SetAlways(params, key, val) == [params EXCEPT ![key] = val]

SetIfNone(params, key, val) ==
    IF params[key] = NoneV THEN [params EXCEPT ![key] = val] ELSE params

\* build without the `set_if_none('legend_direction', ...)` lines
SetDefaultsNoDirection(params) ==
    LET p1 == SetIfNone(params, "legend_box", "vertical")
        p2 == SetIfNone(p1, "legend_key_width", p1["legend_key_size"])
        p3 == SetIfNone(p2, "legend_key_height", p2["legend_key_size"])
        p5 == SetIfNone(p3, "legend_position", "right")
        position == p5["legend_position"]
    IN  IF position \in {"left", "right"}
        THEN SetIfNone(p5, "legend_box_just", "left")
        ELSE SetIfNone(p5, "legend_box_just", "center")

SetDefaults(params) ==
    LET p1 == SetIfNone(params, "legend_box", "vertical")
        p2 == SetIfNone(p1, "legend_key_width", p1["legend_key_size"])
        p3 == SetIfNone(p2, "legend_key_height", p2["legend_key_size"])
        p4 == SetIfNone(p3, "legend_box", "vertical")
        p5 == SetIfNone(p4, "legend_position", "right")
        position == p5["legend_position"]
        p6 == IF position \in {"top", "bottom"}
              THEN SetIfNone(p5, "legend_direction", "horizontal")
              ELSE SetIfNone(p5, "legend_direction", "vertical")
    IN  IF position \in {"left", "right"}
        THEN SetIfNone(p6, "legend_box_just", "left")
        ELSE SetIfNone(p6, "legend_box_just", "center")

----------------------------------------------------------------------------
(* Guide specs, scales and guide definitions *)

\* guide.available_aes == 'any'
AnyAes == {"any"}

\* A guide object.  id tells the objects of one plot apart.
GuideObj(id, cls, title, direction, avail, order) ==
    [kind |-> "guide", id |-> id, cls |-> cls, title |-> title,
     direction |-> direction, available_aes |-> avail, order |-> order]

StrSpec(name) ==
    [kind |-> "str", id |-> 0, cls |-> name, title |-> NoneV,
     direction |-> NoneV, available_aes |-> {}, order |-> 0]

NoneSpec  == [StrSpec("") EXCEPT !.kind = "none"]
FalseSpec == [StrSpec("") EXCEPT !.kind = "false"]
\* an object that is neither a string nor a guide
OtherSpec == [StrSpec("") EXCEPT !.kind = "other"]

\* The guide classes of the registry and the aesthetics each one supports
Registry == [legend |-> AnyAes, colorbar |-> {"colour", "color", "fill"}]

\* Registry['guide_{}'.format(name)](): a guide with nothing set by the user
NewGuide(name) == GuideObj(0, name, Waive, NoneV, Registry[name], 0)

\* str(label), for a label that is a string or a one-digit number
PyStr(label) ==
    IF label.isStr THEN label.s
    ELSE <<"0", "1", "2", "3", "4", "5", "6", "7", "8", "9">>[label.n + 1]

\* Python truth of scale.name
Truthy(name) == name \notin {NoneV, ""}

\* is_waive(x)
is_waive(x) == x = Waive

ErrUnknownGuide == "Unknown guide"
ErrCannotBeUsed == "guide cannot be used for aesthetic"
ErrOrder        == "'order' for a guide should be between 0 and 99"
ErrLegendBox    == "'legend_box' should be either 'vertical' or 'horizontal'"

\* guide.train(scale) of the guide object: the guide bound to the scale, as a
\* list of one definition, or the empty list when it returns None.  The hash
\* and the outcome of create_geoms are decided by the scale's data.
GuideTrain(g, scale, i) ==
    IF scale.trainable
    THEN << [id |-> g.id, cls |-> g.cls, title |-> g.title,
              direction |-> g.direction,
              order |-> g.order, hash |-> scale.digest, geoms |-> scale.geoms,
              srcs |-> <<i>>] >>
    ELSE << >>

\* gdef.merge(g) of the guide object: self with g's keys folded in
GdefMerge(a, b) == [a EXCEPT !.srcs = a.srcs \o b.srcs]

\* g.draw(theme) of the guide object: the box of that definition
GdefDraw(g) == [of |-> g.srcs]

Call(op, g) == [op |-> op, who |-> g.srcs]

----------------------------------------------------------------------------
(* guides.validate and guides.train *)

\* validate(guide) for a string or a guide object
Validate(guide) == IF guide.kind = "str" THEN NewGuide(guide.cls) ELSE guide

\* self.get(output, scale.guide) with the priority reversed: the scale's own
\* guide wins whenever it has one
ResolveScaleFirst(collection, scale) ==
    IF scale.guide.kind \notin {"none", "false"} THEN scale.guide
    ELSE DictGet(collection, scale.aesthetics[1], scale.guide)

\* guide = self.get(output, scale.guide)
Resolve(collection, scale) ==
    DictGet(collection, scale.aesthetics[1], scale.guide)

\* One iteration of the loop of train, for plot.scales[i].  st holds the
\* collection and the scales (whose guide objects the loop mutates), the
\* definitions collected so far and the error raised.
TrainScale(st, i, lbls, params) ==
    LET scale  == st.scales[i]
        output == scale.aesthetics[1]
        guide  == Resolve(st.coll, scale)
    IN  IF guide.kind \in {"none", "false"} THEN st
        ELSE IF guide.kind \notin {"str", "guide"}
        THEN [st EXCEPT !.err = ErrUnknownGuide]
        ELSE
        LET g0 == Validate(guide)
        IN  IF g0.available_aes # AnyAes /\ scale.aesthetics[1] \notin g0.available_aes
            THEN [st EXCEPT !.err = ErrCannotBeUsed]
            ELSE
            LET g1 == IF is_waive(g0.title)
                      THEN IF Truthy(scale.name)
                           THEN [g0 EXCEPT !.title = scale.name]
                           ELSE [g0 EXCEPT !.title = PyStr(lbls[output])]
                      ELSE g0
                g2 == IF g1.direction = NoneV
                      THEN [g1 EXCEPT !.direction = params["legend_direction"]]
                      ELSE g1
                \* the assignments above act on the guide object itself
                coll2 == IF guide.kind = "guide" /\ output \in DOMAIN st.coll
                         THEN [st.coll EXCEPT ![output] = g2] ELSE st.coll
                scales2 == IF guide.kind = "guide" /\ output \notin DOMAIN st.coll
                           THEN [st.scales EXCEPT ![i].guide = g2] ELSE st.scales
            IN  [coll |-> coll2, scales |-> scales2,
                 gdefs |-> st.gdefs \o GuideTrain(g2, scale, i), err |-> NoErr]

RECURSIVE TrainFrom(_, _, _, _)
TrainFrom(st, i, lbls, params) ==
    IF i > Len(st.scales) \/ st.err # NoErr THEN st
    ELSE TrainFrom(TrainScale(st, i, lbls, params), i + 1, lbls, params)

Train(collection, scs, lbls, params) ==
    TrainFrom([coll |-> collection, scales |-> scs, gdefs |-> << >>, err |-> NoErr],
              1, lbls, params)

----------------------------------------------------------------------------
(* guides.merge *)

Hashes(gs) == {gs[i].hash : i \in 1..Len(gs)}

\* the keys of df.groupby('hash'), in the order the groups are iterated
RECURSIVE SortedKeys(_)
SortedKeys(S) ==
    IF S = {} THEN << >>
    ELSE LET m == CHOOSE x \in S : \A y \in S : x <= y
         IN  <<m>> \o SortedKeys(S \ {m})

\* group['gdef'] of the group with key h: its rows in the order of the input
Group(gs, h) == SelectSeq(gs, LAMBDA g : g.hash = h)

\* gdef = group.iloc[0]; for g in group.iloc[1:]: gdef = gdef.merge(g)
RECURSIVE FoldGroup(_, _)
FoldGroup(gdef, rest) ==
    IF rest = << >> THEN [gdef |-> gdef, calls |-> << >>]
    ELSE LET r == FoldGroup(GdefMerge(gdef, Head(rest)), Tail(rest))
         IN  [gdef |-> r.gdef, calls |-> <<Call("merge", gdef)>> \o r.calls]

\* a fold that keeps the first definition of the group and drops the others
MergeGroupFirstOnly(gs, h) ==
    [gdef |-> Head(Group(gs, h)), calls |-> << >>]

MergeGroup(gs, h) == FoldGroup(Head(Group(gs, h)), Tail(Group(gs, h)))

RECURSIVE MergeKeys(_, _)
MergeKeys(gs, keys) ==
    IF keys = << >> THEN [gdefs |-> << >>, calls |-> << >>]
    ELSE LET m == MergeGroup(gs, Head(keys))
             r == MergeKeys(gs, Tail(keys))
         IN  [gdefs |-> <<m.gdef>> \o r.gdefs, calls |-> m.calls \o r.calls]

Merge(gs) == MergeKeys(gs, SortedKeys(Hashes(gs)))

----------------------------------------------------------------------------
(* guides.create_geoms and guides.draw *)

\* gdef.create_geoms(plot) is falsy for a definition without key geometry
CreateGeoms(gs) == SelectSeq(gs, LAMBDA g : g.geoms)

Draw(gs) == [i \in 1..Len(gs) |-> GdefDraw(gs[i])]

DrawCalls(gs) ==
    [i \in 1..Len(gs) |-> Call("_set_defaults", gs[i])]
    \o [i \in 1..Len(gs) |-> Call("draw", gs[i])]


----------------------------------------------------------------------------
(* guides.assemble *)

MinOrder == 0
MaxOrder == 99
EndOrder == 100
PackPad == 0
PackSep == 20

\* the iteration without the range check: no order raises
OrderOfNoRange(g) ==
    IF g.order = 0 THEN [gdef |-> [g EXCEPT !.order = EndOrder], err |-> NoErr]
    ELSE [gdef |-> g, err |-> NoErr]

\* One iteration of `for gdef in gdefs`: the definition afterwards, and the
\* error raised
OrderOf(g) ==
    IF g.order = 0 THEN [gdef |-> [g EXCEPT !.order = EndOrder], err |-> NoErr]
    ELSE IF ~(MinOrder <= g.order /\ g.order <= MaxOrder)
    THEN [gdef |-> g, err |-> ErrOrder]
    ELSE [gdef |-> g, err |-> NoErr]

\* The loop: it stops at the first definition whose order is out of range,
\* the definitions before it already rewritten
RECURSIVE OrderLoop(_, _)
OrderLoop(gs, i) ==
    IF i > Len(gs) THEN [gdefs |-> gs, err |-> NoErr]
    ELSE LET r == OrderOf(gs[i])
         IN  IF r.err # NoErr THEN [gdefs |-> gs, err |-> r.err]
             ELSE OrderLoop([gs EXCEPT ![i] = r.gdef], i + 1)

IndexPerms(n) ==
    {p \in [1..n -> 1..n] : \A i, j \in 1..n : i # j => p[i] # p[j]}

\* np.argsort(orders): the default kind, quicksort, orders equal keys in any
\* way, so every index list that sorts `orders` is a possible result
NpArgsort(orders) ==
    {p \in IndexPerms(Len(orders)) :
        \A i, j \in 1..Len(orders) : i < j => orders[p[i]] <= orders[p[j]]}

\* the stable argsort: equal keys keep their input order
StableArgsort(orders) ==
    {p \in NpArgsort(orders) :
        \A i, j \in 1..Len(orders) :
            (i < j /\ orders[p[i]] = orders[p[j]]) => p[i] < p[j]}

\* the packer classes exchanged
PackerOfSwapped(direction) ==
    IF direction = "vertical" THEN "HPacker"
    ELSE IF direction = "horizontal" THEN "VPacker"
    ELSE NoneV

\* the packer chosen by theme.params['legend_box'], NoneV when it raises
PackerOf(direction) ==
    IF direction = "vertical" THEN "VPacker"
    ELSE IF direction = "horizontal" THEN "HPacker"
    ELSE NoneV

\* assemble after the order loop, for the index list idx of argsort
Pack(boxes, idx, params) ==
    LET sorted == [i \in 1..Len(idx) |-> boxes[idx[i]]]
        packer == PackerOf(params["legend_box"])
    IN  IF packer = NoneV THEN [box |-> NoBox, err |-> ErrLegendBox]
        ELSE [box |-> [packer |-> packer, children |-> sorted,
                       align |-> params["legend_box_just"],
                       pad |-> PackPad, sep |-> PackSep],
              err |-> NoErr]


----------------------------------------------------------------------------
(* guides.build, one action per statement of the pipeline *)

NoPlots == [p \in {} |-> EmptyDict]
NoLast  == [op |-> "none", plot |-> 0, ret |-> 0, n |-> 0]

\* the variables of the constructor and of the merge-into-plot model
others == <<kwargs, heap, shared, plotGuides, last>>

OthersIdle ==
    /\ kwargs = EmptyDict
    /\ heap = << >>
    /\ shared = EmptyDict
    /\ plotGuides = NoPlots
    /\ last = NoLast

\* lines 49-76
BuildDefaults ==
    /\ pc = "build"
    /\ theme' = SetDefaults(theme)
    /\ pc' = "train"
    /\ UNCHANGED <<err, result, entry, scales, labels, coll, gdefs, old,
                   gboxes, calls, others>>

\* lines 78-80: gdefs = self.train(plot); if not gdefs: return
BuildTrain ==
    /\ pc = "train"
    /\ LET st == Train(coll, scales, labels, theme)
       IN  /\ coll' = st.coll
           /\ scales' = st.scales
           /\ IF st.err # NoErr
              THEN /\ pc' = "error"
                   /\ err' = st.err
                   /\ gdefs' = gdefs
              ELSE /\ pc' = IF st.gdefs = << >> THEN "done" ELSE "merge"
                   /\ err' = err
                   /\ gdefs' = st.gdefs
    /\ UNCHANGED <<result, theme, entry, labels, old, gboxes, calls, others>>

\* line 82: gdefs = self.merge(gdefs)
BuildMerge ==
    /\ pc = "merge"
    /\ old' = gdefs
    /\ gdefs' = Merge(gdefs).gdefs
    /\ calls' = calls \o Merge(gdefs).calls
    /\ pc' = "create_geoms"
    /\ UNCHANGED <<err, result, theme, entry, scales, labels, coll, gboxes,
                   others>>

\* lines 83-86: gdefs = self.create_geoms(gdefs, plot); if not gdefs: return
BuildCreateGeoms ==
    /\ pc = "create_geoms"
    /\ old' = gdefs
    /\ gdefs' = CreateGeoms(gdefs)
    /\ pc' = IF CreateGeoms(gdefs) = << >> THEN "done" ELSE "draw"
    /\ UNCHANGED <<err, result, theme, entry, scales, labels, coll, gboxes,
                   calls, others>>

\* line 88: gboxes = self.draw(gdefs, plot.theme)
BuildDraw ==
    /\ pc = "draw"
    /\ old' = gdefs
    /\ gboxes' = Draw(gdefs)
    /\ calls' = calls \o DrawCalls(gdefs)
    /\ pc' = "assemble"
    /\ UNCHANGED <<err, result, theme, entry, scales, labels, coll, gdefs,
                   others>>

\* lines 89-90: bigbox = self.assemble(gboxes, gdefs, plot.theme); return bigbox
BuildAssemble ==
    /\ pc = "assemble"
    /\ old' = gdefs
    /\ LET lo == OrderLoop(gdefs, 1)
       IN  /\ gdefs' = lo.gdefs
           /\ IF lo.err # NoErr
              THEN /\ pc' = "error"
                   /\ err' = lo.err
                   /\ UNCHANGED <<result, calls>>
              ELSE \E idx \in NpArgsort([i \in 1..Len(lo.gdefs) |-> lo.gdefs[i].order]) :
                     LET r == Pack(gboxes, idx, theme)
                     IN  IF r.err # NoErr
                         THEN /\ pc' = "error"
                              /\ err' = r.err
                              /\ UNCHANGED <<result, calls>>
                         ELSE /\ pc' = "done"
                              /\ err' = err
                              /\ result' = r.box
                              /\ calls' = calls \o
                                     <<[op |-> r.box.packer, who |-> << >>]>>
    /\ UNCHANGED <<theme, entry, scales, labels, coll, gboxes, others>>

Next ==
    \/ BuildDefaults
    \/ BuildTrain
    \/ BuildMerge
    \/ BuildCreateGeoms
    \/ BuildDraw
    \/ BuildAssemble


----------------------------------------------------------------------------
(* The plots build is run on *)

SeqsUpTo(S, n) == UNION {[1..k -> S] : k \in 0..n}

Scale(aesthetics, name, guide, trainable, digest, geoms) ==
    [aesthetics |-> aesthetics, name |-> name, guide |-> guide,
     trainable |-> trainable, digest |-> digest, geoms |-> geoms]

StrLabel(s) == [isStr |-> TRUE, s |-> s, n |-> 0]
NumLabel(n) == [isStr |-> FALSE, s |-> "", n |-> n]

PlotLabels == [color |-> StrLabel("mpg"), fill |-> NumLabel(4),
               size |-> StrLabel("wt")]

ColorbarAes == {"colour", "color", "fill"}

UnsetTheme == [k \in ThemeKeys |-> NoneV]

\* every combination of the legend options, each unset or set
ThemeSpace ==
    [legend_box : {NoneV, "vertical", "horizontal", "diagonal"},
     legend_key_width : {NoneV, "5"},
     legend_key_height : {NoneV, "7"},
     legend_key_size : {NoneV, "18"},
     legend_position : {NoneV, "right", "left", "top", "bottom", "none"},
     legend_direction : {NoneV, "horizontal", "vertical"},
     legend_box_just : {NoneV, "left", "center", "right"}]

\* scales and collections that exercise the resolution of the guide spec
TrainScales ==
    { Scale(<<"color">>, "nm", NoneSpec, TRUE, 1, TRUE),
      Scale(<<"color">>, "", StrSpec("legend"), TRUE, 1, TRUE),
      Scale(<<"fill", "color">>, "nm",
            GuideObj(1, "legend", Waive, NoneV, AnyAes, 0), TRUE, 1, TRUE),
      Scale(<<"size">>, "", StrSpec("colorbar"), TRUE, 2, TRUE),
      Scale(<<"size">>, NoneV, FalseSpec, TRUE, 2, TRUE),
      Scale(<<"fill">>, "",
            GuideObj(2, "colorbar", "T", "horizontal", ColorbarAes, 1),
            FALSE, 2, TRUE),
      Scale(<<"color">>, "", OtherSpec, TRUE, 1, TRUE),
      Scale(<<"fill">>, NoneV, StrSpec("colorbar"), TRUE, 2, FALSE),
      Scale(<<"color">>, "nm", StrSpec("legend"), TRUE, 2, TRUE),
      Scale(<<"size">>, "nm",
            GuideObj(3, "colorbar", Waive, "horizontal", ColorbarAes, 0),
            TRUE, 1, TRUE),
      Scale(<<"fill">>, "nm", NoneSpec, TRUE, 1, TRUE) }

TrainCollections ==
    { EmptyDict,
      [color |-> GuideObj(9, "legend", Waive, NoneV, AnyAes, 2)],
      [color |-> NoneSpec,
       fill  |-> GuideObj(8, "legend", "T", NoneV, AnyAes, 0),
       size  |-> StrSpec("legend")] }

TrainThemes ==
    {[UnsetTheme EXCEPT !["legend_direction"] = d, !["legend_position"] = p] :
        d \in {NoneV, "horizontal"}, p \in {NoneV, "top"}}

\* scales whose guides differ in order, hash and key geometry
OrderScales ==
    { Scale(<<"color">>, "nm",
            GuideObj(1, "legend", "T", "vertical", AnyAes, o), TRUE, d, g) :
        o \in {0 - 1, 0, 1, 100}, d \in {1, 2}, g \in BOOLEAN }

OrderThemes == {UnsetTheme, [UnsetTheme EXCEPT !["legend_box"] = "diagonal"]}

InitPlot(th, scs, collection) ==
    /\ pc = "build"
    /\ err = NoErr
    /\ result = NoBox
    /\ theme = th
    /\ scales = scs
    /\ labels = PlotLabels
    /\ coll = collection
    /\ entry = [theme |-> th, coll |-> collection, scales |-> scs]
    /\ gdefs = << >>
    /\ old = << >>
    /\ gboxes = << >>
    /\ calls = << >>
    /\ OthersIdle

\* build is entered on a plot of one of three families: every theme with no
\* scale or one; the scales and collections of train with a few themes; the
\* scales of different orders
Init ==
    \/ \E th \in ThemeSpace :
       \E scs \in {<< >>, <<Scale(<<"color">>, "", StrSpec("legend"), TRUE, 1, TRUE)>>} :
          InitPlot(th, scs, EmptyDict)
    \/ \E th \in TrainThemes, scs \in SeqsUpTo(TrainScales, MaxScales),
          collection \in TrainCollections :
          InitPlot(th, scs, collection)
    \/ \E th \in OrderThemes, scs \in SeqsUpTo(OrderScales, MaxScales) :
          InitPlot(th, scs, EmptyDict)

Spec == Init /\ [][Next]_vars


----------------------------------------------------------------------------
(* Properties of build *)

\* the value build gives the option k when it was unset, th being the theme
\* params after build
FilledValue(k, th) ==
    CASE k = "legend_box" -> "vertical"
      [] k = "legend_key_width" -> th["legend_key_size"]
      [] k = "legend_key_height" -> th["legend_key_size"]
      [] k = "legend_position" -> "right"
      [] k = "legend_direction" ->
            IF th["legend_position"] \in {"top", "bottom"}
            THEN "horizontal" ELSE "vertical"
      [] k = "legend_box_just" ->
            IF th["legend_position"] \in {"left", "right"}
            THEN "left" ELSE "center"

\* C1: once build has filled the theme, and until it returns or raises, every
\* legend option that was set on entry has the value it had, and every option
\* that was unset has its default: legend_box 'vertical', the key width and
\* height legend_key_size, legend_position 'right', legend_direction by the
\* resulting position (top, bottom: 'horizontal', else 'vertical') and
\* legend_box_just by it too (left, right: 'left', else 'center').
C1_ThemeDefaultsFilled ==
    pc # "build" =>
        \A k \in ThemeKeys \ {"legend_key_size"} :
            theme[k] = IF entry.theme[k] # NoneV THEN entry.theme[k]
                       ELSE FilledValue(k, theme)

\* build returned nothing for a plot without scales whose legend_position was
\* 'bottom' and whose direction and justification were unset
C1_Witness ==
    /\ pc = "done" /\ result = NoBox /\ scales = << >>
    /\ entry.theme["legend_position"] = "bottom"
    /\ entry.theme["legend_direction"] = NoneV
    /\ entry.theme["legend_box_just"] = NoneV
    /\ entry.theme["legend_box"] = NoneV
    /\ theme["legend_direction"] = "horizontal"
    /\ theme["legend_box_just"] = "center"

\* train has returned to build and nothing has run since
TrainReturned ==
    \/ pc = "merge"
    \/ pc = "done" /\ old = << >> /\ gdefs = << >>

\* the spec the claim gives scale i: the collection's entry for the primary
\* aesthetic when there is one, else the scale's own guide
ClaimedSpec(i) ==
    LET a == entry.scales[i].aesthetics[1]
    IN  IF a \in DOMAIN entry.coll THEN entry.coll[a]
        ELSE entry.scales[i].guide

\* C2: when train returns, every definition was made from the spec claimed for
\* its scale and that spec is neither None nor False; a scale whose claimed
\* spec is None or False has no definition; and the definitions are in the
\* order of their scales.
C2_TrainResolvesSpec ==
    TrainReturned =>
        /\ \A n \in 1..Len(gdefs) :
              LET e == ClaimedSpec(gdefs[n].srcs[1])
              IN  /\ e.kind \in {"str", "guide"}
                  /\ gdefs[n].id = e.id
                  /\ gdefs[n].cls = e.cls
        /\ \A i \in 1..Len(scales) :
              ClaimedSpec(i).kind \in {"none", "false"} =>
                  \A n \in 1..Len(gdefs) : gdefs[n].srcs[1] # i
        /\ \A m, n \in 1..Len(gdefs) :
              m < n => gdefs[m].srcs[1] < gdefs[n].srcs[1]

\* the first scale has guide False and no override and is skipped; the second
\* has a guide of its own that the collection's entry overrides
C2_Witness ==
    /\ pc = "merge" /\ Len(scales) = 2 /\ Len(gdefs) = 1
    /\ entry.scales[1].guide.kind = "false"
    /\ entry.scales[1].aesthetics[1] \notin DOMAIN entry.coll
    /\ entry.scales[2].guide.kind = "str"
    /\ entry.scales[2].aesthetics[1] \in DOMAIN entry.coll
    /\ gdefs[1].srcs = <<2>>
    /\ gdefs[1].id = 9

IsPacker(op) == op \in {"VPacker", "HPacker"}
InRange(o) == MinOrder <= o /\ o <= MaxOrder

\* C5 as claimed: when build raises the order error, no guide definition's
\* merge and no guide definition's draw has been invoked.
C5_OrderErrorBeforeMergeAndDraw ==
    (pc = "error" /\ err = ErrOrder) =>
        \A n \in 1..Len(calls) : calls[n].op \notin {"merge", "draw"}

\* C5 amended: build raises the order error exactly when a definition passed to
\* assemble has an order outside [0,99]; it is raised in assemble, before any
\* packer is invoked and with no composite box produced, and by then every
\* definition passed to assemble has had its draw invoked.
C5_OrderErrorRaisedInAssemble ==
    /\ (pc = "error" /\ err = ErrOrder) =>
          /\ \E n \in 1..Len(old) : ~InRange(old[n].order)
          /\ result = NoBox
          /\ \A n \in 1..Len(calls) : ~IsPacker(calls[n].op)
          /\ Len(gboxes) = Len(old)
          /\ \A n \in 1..Len(old) :
                \E c \in 1..Len(calls) : calls[c] = Call("draw", old[n])
    /\ (gboxes # << >> /\ (pc = "done" \/ (pc = "error" /\ err = ErrLegendBox))) =>
          \A n \in 1..Len(old) : InRange(old[n].order)

\* the order error was raised after a merge and a draw had been invoked
C5_Witness ==
    /\ pc = "error" /\ err = ErrOrder
    /\ \E n \in 1..Len(calls) : calls[n].op = "merge"
    /\ \E n \in 1..Len(calls) : calls[n].op = "draw"
    /\ \E n \in 1..Len(old) : old[n].order = 100

\* the guide that train works on for scale i, as it was on entry to build
EntryGuide(i) ==
    IF ClaimedSpec(i).kind = "str" THEN NewGuide(ClaimedSpec(i).cls)
    ELSE ClaimedSpec(i)

\* no earlier scale made train work on the same guide object
FirstUse(i) ==
    LET a == entry.scales[i].aesthetics[1]
    IN  a \in DOMAIN entry.coll =>
            \A j \in 1..(i - 1) : entry.scales[j].aesthetics[1] # a

\* C10: when train has returned and merge is about to run, every definition
\* has a title that is not the waiver and a direction that is not None; a
\* title that was waived is the scale's name when it has one, else the plot's
\* label for the primary aesthetic as a string; a direction that was unset is
\* the theme's legend_direction, itself never unset by then.
C10_TitleAndDirectionResolved ==
    pc = "merge" =>
        \A n \in 1..Len(gdefs) :
            LET g  == gdefs[n]
                i  == g.srcs[1]
                sc == entry.scales[i]
                e  == EntryGuide(i)
            IN  /\ ~is_waive(g.title)
                /\ g.direction # NoneV
                /\ theme["legend_direction"] # NoneV
                /\ ~is_waive(e.title) => g.title = e.title
                /\ e.direction # NoneV => g.direction = e.direction
                /\ (is_waive(e.title) /\ FirstUse(i)) =>
                      g.title = IF sc.name \notin {NoneV, ""} THEN sc.name
                                ELSE PyStr(labels[sc.aesthetics[1]])
                /\ (e.direction = NoneV /\ FirstUse(i)) =>
                      g.direction = theme["legend_direction"]

\* the theme's legend_direction was unset and the position 'top'; a guide with
\* a waived title on a scale without a name got the plot's label (the number
\* 4, as "4") and the direction 'horizontal'
C10_Witness ==
    /\ pc = "merge"
    /\ entry.theme["legend_direction"] = NoneV
    /\ entry.theme["legend_position"] = "top"
    /\ \E n \in 1..Len(gdefs) :
          /\ is_waive(EntryGuide(gdefs[n].srcs[1]).title)
          /\ ~Truthy(entry.scales[gdefs[n].srcs[1]].name)
          /\ gdefs[n].title = "4"
          /\ gdefs[n].direction = "horizontal"


----------------------------------------------------------------------------
(* The constructor of guides on its own *)

KwKeys == aes_names \cup {"colour", "x"}
KwValues == {"legend", "colorbar"}

PipelineIdle ==
    /\ err = NoErr
    /\ result = NoBox
    /\ theme = UnsetTheme
    /\ scales = << >>
    /\ labels = PlotLabels
    /\ entry = [theme |-> UnsetTheme, coll |-> EmptyDict, scales |-> << >>]
    /\ gdefs = << >>
    /\ old = << >>
    /\ gboxes = << >>
    /\ calls = << >>

InitCtor ==
    /\ pc = "init"
    /\ \E keys \in SUBSET KwKeys : kwargs \in [keys -> KwValues]
    /\ coll = EmptyDict
    /\ PipelineIdle
    /\ heap = << >>
    /\ shared = EmptyDict
    /\ plotGuides = NoPlots
    /\ last = NoLast

\* lines 32-39
Construct ==
    /\ pc = "init"
    /\ coll' = GuidesInit(kwargs)
    /\ pc' = "constructed"
    /\ UNCHANGED <<err, result, theme, entry, scales, labels, gdefs, old,
                   gboxes, calls, others>>

SpecCtor == InitCtor /\ [][Construct]_vars

\* C8 as claimed: no key outside the six aesthetics is in the collection, every
\* recognized key given maps to the value given for it, and a 'colour' given
\* is in the collection as 'color'.
C8_KeysAsGiven ==
    pc = "constructed" =>
        /\ DOMAIN coll \subseteq aes_names
        /\ \A k \in DOMAIN kwargs \cap aes_names :
              k \in DOMAIN coll /\ coll[k] = kwargs[k]
        /\ "colour" \in DOMAIN kwargs =>
              "color" \in DOMAIN coll /\ coll["color"] = kwargs["colour"]

\* C8 amended: the collection holds exactly the recognized keys given, and
\* 'color' when 'colour' was given; each maps to the value given for it,
\* except that 'color' maps to the value given as 'colour' whenever 'colour'
\* was given, also when 'color' was given too.
C8_KeysWithColourFirst ==
    pc = "constructed" =>
        /\ DOMAIN coll = (DOMAIN kwargs \cap aes_names) \cup
                         (IF "colour" \in DOMAIN kwargs THEN {"color"} ELSE {})
        /\ \A k \in DOMAIN coll :
              coll[k] = IF k = "color" /\ "colour" \in DOMAIN kwargs
                        THEN kwargs["colour"] ELSE kwargs[k]

\* both spellings were given, with different values, beside an unknown key
C8_Witness ==
    /\ pc = "constructed"
    /\ {"color", "colour", "x", "size"} \subseteq DOMAIN kwargs
    /\ kwargs["color"] # kwargs["colour"]
    /\ coll["color"] = kwargs["colour"]
    /\ "x" \notin DOMAIN coll

----------------------------------------------------------------------------
(* guides.merge on its own *)

HashValues == {1, 2, 3}

\* the i-th definition of a list handed to merge or assemble
Gdef(i, order, hash) ==
    [id |-> 1, cls |-> "legend", title |-> "T", direction |-> "vertical",
     order |-> order, hash |-> hash, geoms |-> TRUE, srcs |-> <<i>>]

CollectionIdle ==
    /\ kwargs = EmptyDict
    /\ coll = EmptyDict
    /\ heap = << >>
    /\ shared = EmptyDict
    /\ plotGuides = NoPlots
    /\ last = NoLast

InitMerge ==
    /\ pc = "merge"
    /\ \E n \in 0..MaxMerge : \E hs \in [1..n -> HashValues] :
          gdefs = [i \in 1..n |-> Gdef(i, 0, hs[i])]
    /\ err = NoErr
    /\ result = NoBox
    /\ theme = UnsetTheme
    /\ scales = << >>
    /\ labels = PlotLabels
    /\ entry = [theme |-> UnsetTheme, coll |-> EmptyDict, scales |-> << >>]
    /\ old = << >>
    /\ gboxes = << >>
    /\ calls = << >>
    /\ CollectionIdle

SpecMerge == InitMerge /\ [][BuildMerge]_vars

\* the places in the list `old` of the definitions with hash h, ascending
PlacesOf(h) ==
    SelectSeq([j \in 1..Len(old) |-> j], LAMBDA j : old[j].hash = h)

\* C3: when merge returns there is one definition per distinct hash of the
\* input; each came from the first definition of its group with the others of
\* the group folded in one by one in input order, so every input is part of
\* exactly one output; and the pairwise merge ran once per input that is not
\* the first of its group.
C3_OneDefinitionPerHash ==
    pc = "create_geoms" =>
        /\ Len(gdefs) = Cardinality(Hashes(old))
        /\ \A m, n \in 1..Len(gdefs) : m # n => gdefs[m].hash # gdefs[n].hash
        /\ \A n \in 1..Len(gdefs) :
              LET places == PlacesOf(gdefs[n].hash)
              IN  /\ places # << >>
                  /\ gdefs[n].srcs =
                        [k \in 1..Len(places) |-> old[places[k]].srcs[1]]
                  /\ [gdefs[n] EXCEPT !.srcs = old[places[1]].srcs]
                        = old[places[1]]
        /\ \A i \in 1..Len(old) :
              Cardinality({<<n, k>> \in (1..Len(gdefs)) \X (1..Len(old)) :
                              /\ k <= Len(gdefs[n].srcs)
                              /\ gdefs[n].srcs[k] = old[i].srcs[1]}) = 1
        /\ Len(calls) = Len(old) - Len(gdefs)
        /\ \A c \in 1..Len(calls) : calls[c].op = "merge"

\* three definitions, the first and the third with one hash: two come out, and
\* the third was folded into the first
C3_Witness ==
    /\ pc = "create_geoms"
    /\ Len(old) = 3 /\ Len(gdefs) = 2
    /\ old[1].hash = old[3].hash /\ old[2].hash < old[1].hash
    /\ gdefs[1].srcs = <<2>>
    /\ gdefs[2].srcs = <<1, 3>>

----------------------------------------------------------------------------
(* guides.assemble on its own *)

OrderValues == {0 - 1, 0, 1, 2, 99, 100}

AssembleThemes ==
    {[UnsetTheme EXCEPT !["legend_box"] = b, !["legend_box_just"] = j] :
        b \in {NoneV, "vertical", "horizontal", "diagonal"},
        j \in {"left", "center"}}

InitAssemble ==
    /\ pc = "assemble"
    /\ \E n \in 1..MaxGdefs : \E os \in [1..n -> OrderValues] :
          /\ gdefs = [i \in 1..n |-> Gdef(i, os[i], i)]
          /\ gboxes = [i \in 1..n |-> GdefDraw(Gdef(i, os[i], i))]
    /\ theme \in AssembleThemes
    /\ err = NoErr
    /\ result = NoBox
    /\ scales = << >>
    /\ labels = PlotLabels
    /\ entry = [theme |-> UnsetTheme, coll |-> EmptyDict, scales |-> << >>]
    /\ old = << >>
    /\ calls = << >>
    /\ CollectionIdle

SpecAssemble == InitAssemble /\ [][BuildAssemble]_vars

AllInRange(gs) == \A n \in 1..Len(gs) : InRange(gs[n].order)

\* the sort key the claims give a definition: its order, 0 counted as 100
SortKey(g) == IF g.order = 0 THEN 100 ELSE g.order

C9_OrderPreserved ==
    (pc = "done" /\ AllInRange(old)) =>
        \A n \in 1..Len(old) : gdefs[n].order = old[n].order

\* C6: with every order in [0,99], legend_box 'vertical' makes assemble return
\* the box of VPacker and 'horizontal' that of HPacker, called with all the
\* boxes, align = legend_box_just, pad = 0 and sep = 20; any other legend_box
\* raises the configuration error and no box is made.
C6_PackerByLegendBox ==
    (pc \in {"done", "error"} /\ AllInRange(old)) =>
        IF theme["legend_box"] \in {"vertical", "horizontal"}
        THEN /\ pc = "done"
             /\ result.packer = IF theme["legend_box"] = "vertical"
                                THEN "VPacker" ELSE "HPacker"
             /\ Len(result.children) = Len(gboxes)
             /\ \A i \in 1..Len(gboxes) :
                   \E j \in 1..Len(gboxes) : result.children[j] = gboxes[i]
             /\ result.align = theme["legend_box_just"]
             /\ result.pad = 0
             /\ result.sep = 20
             /\ calls = <<[op |-> result.packer, who |-> << >>]>>
        ELSE /\ pc = "error"
             /\ err = ErrLegendBox
             /\ result = NoBox
             /\ calls = << >>

\* three boxes packed side by side, centred
C6_Witness ==
    /\ pc = "done"
    /\ theme["legend_box"] = "horizontal"
    /\ theme["legend_box_just"] = "center"
    /\ result.packer = "HPacker"
    /\ Len(result.children) = 3
    /\ old[1].order = 2 /\ old[2].order = 0 /\ old[3].order = 1


----------------------------------------------------------------------------
(* plot + guides: guides.__radd__, with the guide objects on a heap *)

Plots == {1, 2}

\* plot.scales and plot.theme.params of the two plots
PlotScalesOf(p) ==
    IF p = 1
    THEN <<Scale(<<"color">>, "cyl", NoneSpec, TRUE, 1, TRUE),
           Scale(<<"fill">>, "", NoneSpec, TRUE, 1, TRUE)>>
    ELSE <<Scale(<<"color">>, "gear", NoneSpec, TRUE, 2, TRUE),
           Scale(<<"size">>, "", NoneSpec, TRUE, 2, TRUE)>>

PlotThemeOf(p) ==
    IF p = 1 THEN [UnsetTheme EXCEPT !["legend_position"] = "top"]
    ELSE UnsetTheme

SharedSpecs ==
    { GuideObj(1, "legend", Waive, NoneV, AnyAes, 0),
      GuideObj(2, "legend", "T", "horizontal", AnyAes, 5),
      StrSpec("legend") }

MaxRef(h) == IF DOMAIN h = {} THEN 0
             ELSE CHOOSE r \in DOMAIN h : \A q \in DOMAIN h : q <= r

\* a copy that is the object itself
ShallowCopy(h, r) == [ref |-> r, heap |-> h]

\* deepcopy(obj) of the object at reference r: a new guide object with the
\* same attributes; a string is its own deep copy
DeepCopy(h, r) ==
    IF h[r].kind = "guide"
    THEN [ref |-> MaxRef(h) + 1,
          heap |-> [q \in DOMAIN h \cup {MaxRef(h) + 1} |->
                       IF q \in DOMAIN h THEN h[q] ELSE h[r]]]
    ELSE [ref |-> r, heap |-> h]

\* for k in self: new_guides[k] = deepcopy(self[k])
RECURSIVE RaddLoop(_, _, _, _)
RaddLoop(self, keys, h, new_guides) ==
    IF keys = {} THEN [heap |-> h, new_guides |-> new_guides]
    ELSE LET k == CHOOSE x \in keys : TRUE
             c == DeepCopy(h, self[k])
         IN  RaddLoop(self, keys \ {k}, c.heap,
                      DictUpdate(new_guides, [x \in {k} |-> c.ref]))

\* lines 41-46
Radd(p) ==
    /\ pc = "plots"
    /\ last.n < MaxRadds
    /\ LET r == RaddLoop(shared, DOMAIN shared, heap, EmptyDict)
       IN  /\ heap' = r.heap
           /\ plotGuides' = [plotGuides EXCEPT
                                ![p] = DictUpdate(@, r.new_guides)]
    /\ last' = [op |-> "radd", plot |-> p, ret |-> p, n |-> last.n + 1]
    /\ UNCHANGED <<pc, err, result, theme, entry, scales, labels, coll, gdefs,
                   old, gboxes, calls, kwargs, shared>>

\* plot.guides.build(plot), lines 48-78: the theme defaults, then train, which
\* assigns to the guide objects of the plot's own collection
BuildPlot(p) ==
    /\ pc = "plots"
    /\ LET pg == plotGuides[p]
           st == Train([k \in DOMAIN pg |-> heap[pg[k]]], PlotScalesOf(p),
                       PlotLabels, SetDefaults(PlotThemeOf(p)))
       IN  heap' = [r \in DOMAIN heap |->
                       IF \E k \in DOMAIN pg : pg[k] = r
                       THEN st.coll[CHOOSE k \in DOMAIN pg : pg[k] = r]
                       ELSE heap[r]]
    /\ last' = [last EXCEPT !.op = "build", !.plot = p, !.ret = 0]
    /\ UNCHANGED <<pc, err, result, theme, entry, scales, labels, coll, gdefs,
                   old, gboxes, calls, kwargs, shared, plotGuides>>

\* The collection holds its specs at references 1 and 2; plot 1 has guides of
\* its own for color and size, plot 2 has none
InitRadd ==
    /\ pc = "plots"
    /\ \E keys \in SUBSET {"color", "fill"} : \E specs \in [keys -> SharedSpecs] :
          /\ shared = [k \in keys |-> IF k = "color" THEN 1 ELSE 2]
          /\ heap = [r \in {IF k = "color" THEN 1 ELSE 2 : k \in keys} \cup {3, 4} |->
                        CASE r = 1 -> specs["color"]
                          [] r = 2 -> specs["fill"]
                          [] r = 3 -> GuideObj(3, "legend", Waive, NoneV, AnyAes, 0)
                          [] r = 4 -> GuideObj(4, "legend", Waive, NoneV, AnyAes, 0)]
    /\ plotGuides = [p \in Plots |->
                        IF p = 1 THEN [color |-> 3, size |-> 4] ELSE EmptyDict]
    /\ last = NoLast
    /\ kwargs = EmptyDict
    /\ coll = EmptyDict
    /\ PipelineIdle

NextRadd ==
    \/ \E p \in Plots : Radd(p)
    \/ \E p \in Plots : BuildPlot(p)

SpecRadd == InitRadd /\ [][NextRadd]_vars

\* What C7 says of one step.  The collection added to the plots never changes,
\* nor does any of its guide specs.  A merge into plot p returns p and leaves
\* in p's guides, for every key of the collection, a new object equal to the
\* collection's spec (the string itself for a string), p's other entries and
\* the other plots being as before.  A build of plot p changes no guide spec
\* of another plot.
C7_Step ==
    /\ shared' = shared
    /\ \A k \in DOMAIN shared : heap'[shared[k]] = heap[shared[k]]
    /\ last'.op = "radd" =>
          LET p == last'.plot
          IN  /\ last'.ret = p
              /\ DOMAIN plotGuides'[p] = DOMAIN plotGuides[p] \cup DOMAIN shared
              /\ \A k \in DOMAIN shared :
                    /\ heap'[plotGuides'[p][k]] = heap[shared[k]]
                    /\ heap[shared[k]].kind = "guide" =>
                          plotGuides'[p][k] \notin DOMAIN heap
              /\ \A k, m \in DOMAIN shared :
                    (k # m /\ heap[shared[k]].kind = "guide") =>
                        plotGuides'[p][k] # plotGuides'[p][m]
              /\ \A k \in DOMAIN plotGuides[p] \ DOMAIN shared :
                    plotGuides'[p][k] = plotGuides[p][k]
              /\ \A q \in Plots \ {p} : plotGuides'[q] = plotGuides[q]
              /\ \A r \in DOMAIN heap : heap'[r] = heap[r]
    /\ last'.op = "build" =>
          /\ plotGuides' = plotGuides
          /\ \A q \in Plots \ {last'.plot} : \A k \in DOMAIN plotGuides[q] :
                heap'[plotGuides[q][k]] = heap[plotGuides[q][k]]

\* C7: every merge of the collection into a plot stores deep copies and
\* returns the plot, and no build of a plot changes a guide spec of the
\* collection or of another plot.
C7_DeepCopyIsolation == [][C7_Step]_vars

\* the collection was added to both plots and both were built: each plot's
\* color guide has the title of its own scale, the collection's is still waived
C7_Witness ==
    /\ "color" \in DOMAIN shared
    /\ "color" \in DOMAIN plotGuides[2]
    /\ is_waive(heap[shared["color"]].title)
    /\ heap[plotGuides[1]["color"]].title = "cyl"
    /\ heap[plotGuides[1]["color"]].direction = "horizontal"
    /\ heap[plotGuides[2]["color"]].title = "gear"
    /\ heap[plotGuides[2]["color"]].direction = "vertical"
    /\ plotGuides[1]["color"] \notin {3, shared["color"]}


====
